---- MODULE Spec2Model ----
EXTENDS Naturals, Sequences, FiniteSets, Bags, TLC

(***************************************************************************)
(* Model of src/app.py: a Flask gateway with two routes, POST /translate   *)
(* and GET /languages, in front of an external translation Provider.       *)
(*                                                                         *)
(* A language name sent by a client is a sequence of one-character         *)
(* strings, so that str.lower() is computed character by character.  All   *)
(* other texts (the text to translate, codes, display names, messages) are *)
(* opaque strings that the code only copies and concatenates.              *)
(***************************************************************************)

VARIABLES
    language_map,   \* translation_service.language_map (app.py:13-30)
    pc,             \* "ready": no request in progress; "calling": blocked in the Provider call
    request,        \* request.json of the request in progress / last handled
    frame,          \* arguments of translate_text for the request in progress
    calls,          \* Provider calls made since the arrival of that request
    outcome,        \* what the Provider did for that request
    response,       \* the response to that request, NoResponse until it is produced
    served,         \* number of requests handled so far (history specification)
    log,            \* bag of the completed POST /translate exchanges (history specification)
    memo            \* the answers a deterministic Provider has given (history specification)

vars == <<language_map, pc, request, frame, calls, outcome, response, served, log, memo>>

----------------------------------------------------------------------------
\* Bounds of the model.

\* The Provider returns at most this many translations for the one text sent.
MaxTranslations == 2

\* Number of requests in one behaviour of the history specification.
MaxRequests == 3

----------------------------------------------------------------------------
\* Strings with letter case.

UpperChars == <<"A","B","C","D","E","F","G","H","I","J","K","L","M",
                "N","O","P","Q","R","S","T","U","V","W","X","Y","Z">>

LowerChars == <<"a","b","c","d","e","f","g","h","i","j","k","l","m",
                "n","o","p","q","r","s","t","u","v","w","x","y","z">>

LowerChar(c) ==
    IF \E i \in DOMAIN UpperChars : UpperChars[i] = c
    THEN LowerChars[CHOOSE i \in DOMAIN UpperChars : UpperChars[i] = c]
    ELSE c

\* str.lower()
lower(s) == [i \in 1..Len(s) |-> LowerChar(s[i])]

UpperChar(c) ==
    IF \E i \in DOMAIN LowerChars : LowerChars[i] = c
    THEN UpperChars[CHOOSE i \in DOMAIN LowerChars : LowerChars[i] = c]
    ELSE c

\* Case variants a client may send: all capitals, and a leading capital.
AllCaps(s) == [i \in 1..Len(s) |-> UpperChar(s[i])]

Capitalized(s) == [i \in 1..Len(s) |-> IF i = 1 THEN UpperChar(s[i]) ELSE s[i]]

----------------------------------------------------------------------------
\* The registry built by TranslationService.__init__.

english == <<"e","n","g","l","i","s","h">>

twi == <<"t","w","i">>

ga == <<"g","a">>

ewe == <<"e","w","e">>

InitialLanguageMap ==
    (english :> [code |-> "en-GB", full_name |-> "English"])
 @@ (twi     :> [code |-> "ak",    full_name |-> "Twi (Akan)"])
 @@ (ga      :> [code |-> "gaa",   full_name |-> "Ga"])
 @@ (ewe     :> [code |-> "ee",    full_name |-> "Ewe"])

\* os.getenv("PROJECT_ID"): the constructor raises unless it is set.
project_id == "demo"

parent == "projects/" \o project_id \o "/locations/global"

----------------------------------------------------------------------------
\* Python values and exceptions.

ValueError(m) == [type |-> "ValueError", msg |-> m]

RuntimeError(m) == [type |-> "RuntimeError", msg |-> m]

IndexError(m) == [type |-> "IndexError", msg |-> m]

NoExc == [type |-> "", msg |-> ""]

\* str(e): the message, except that KeyError shows the repr of its argument.
str(e) == IF e.type = "KeyError" THEN "'" \o e.msg \o "'" ELSE e.msg

\* The result of running a block: it raised exc, or it returned value.
Raised(e) == [raised |-> TRUE, exc |-> e, value |-> <<>>]

Returned(v) == [raised |-> FALSE, exc |-> NoExc, value |-> v]

\* What the Provider did: nothing yet, returned a response, or raised.
NoOutcome == [kind |-> "none", translations |-> <<>>, exc |-> NoExc]

ProviderReturned(ts) == [kind |-> "returned", translations |-> ts, exc |-> NoExc]

ProviderRaised(e) == [kind |-> "raised", translations |-> <<>>, exc |-> e]

----------------------------------------------------------------------------
\* TranslationService.

\* Mutant: only the source lookup is inside the try block, so an unknown
\* target raises a KeyError that nothing turns into a ValueError.
translate_text_lookup_target_outside_try(map, source_lang, target_lang) ==
    IF source_lang \notin DOMAIN map
    THEN Raised(ValueError("Invalid language names"))
    ELSE IF target_lang \notin DOMAIN map
    THEN Raised([type |-> "KeyError", msg |-> "target_lang"])
    ELSE Returned([source_code |-> map[source_lang].code,
                   target_code |-> map[target_lang].code])

\* translate_text, lines 51-55: the two registry lookups.
translate_text_lookup(map, source_lang, target_lang) ==
    IF source_lang \in DOMAIN map /\ target_lang \in DOMAIN map
    THEN Returned([source_code |-> map[source_lang].code,
                   target_code |-> map[target_lang].code])
    ELSE Raised(ValueError("Invalid language names"))

\* translate_text, lines 58-64: the arguments of client.translate_text.
client_translate_text(text, source_code, target_code) ==
    [contents             |-> <<text>>,
     target_language_code |-> target_code,
     source_language_code |-> source_code,
     parent               |-> parent,
     mime_type            |-> "text/plain"]

\* Mutant: the Provider's exception is raised again as it is, not wrapped.
translate_text_result_reraise(map, text, source_lang, target_lang, out) ==
    IF out.kind = "raised"
    THEN Raised(out.exc)
    ELSE IF out.translations = <<>>
    THEN Raised(IndexError("list index out of range"))
    ELSE Returned([original_text   |-> text,
                   translated_text |-> out.translations[1],
                   source_language |-> map[source_lang].full_name,
                   target_language |-> map[target_lang].full_name])

\* Mutant: the result names the languages by provider code.
translate_text_result_codes(map, text, source_lang, target_lang, out) ==
    IF out.kind = "raised"
    THEN Raised(RuntimeError("Translation error: " \o str(out.exc)))
    ELSE IF out.translations = <<>>
    THEN Raised(RuntimeError("Translation error: "
                             \o str(IndexError("list index out of range"))))
    ELSE Returned([original_text   |-> text,
                   translated_text |-> out.translations[1],
                   source_language |-> map[source_lang].code,
                   target_language |-> map[target_lang].code])

\* Mutant: a failed or empty Provider answer is reported inside a result.
translate_text_result_partial(map, text, source_lang, target_lang, out) ==
    IF out.kind = "raised"
    THEN Returned([original_text |-> text,
                   error |-> "Translation error: " \o str(out.exc)])
    ELSE IF out.translations = <<>>
    THEN Returned([original_text   |-> text,
                   source_language |-> map[source_lang].full_name,
                   target_language |-> map[target_lang].full_name])
    ELSE Returned([original_text   |-> text,
                   translated_text |-> out.translations[1],
                   source_language |-> map[source_lang].full_name,
                   target_language |-> map[target_lang].full_name])

\* translate_text, lines 57-73, from the return of the Provider call on.
translate_text_result(map, text, source_lang, target_lang, out) ==
    IF out.kind = "raised"
    THEN Raised(RuntimeError("Translation error: " \o str(out.exc)))
    ELSE IF out.translations = <<>>
    THEN Raised(RuntimeError("Translation error: "
                             \o str(IndexError("list index out of range"))))
    ELSE Returned([original_text   |-> text,
                   translated_text |-> out.translations[1],
                   source_language |-> map[source_lang].full_name,
                   target_language |-> map[target_lang].full_name])

\* Mutant: the listing shows the provider codes.
get_supported_languages_codes(map) == [lang \in DOMAIN map |-> map[lang].code]

get_supported_languages(map) == [lang \in DOMAIN map |-> map[lang].full_name]

----------------------------------------------------------------------------
\* The routes.

Required == {"text", "source_lang", "target_lang"}

EmptyBody == [k \in {} |-> ""]

NoFrame == [text |-> "", source_lang |-> <<>>, target_lang |-> <<>>]

NoResponse == [route |-> "none", status |-> 0, body |-> EmptyBody]

\* jsonify(body), status
jsonify(route, body, status) == [route |-> route, status |-> status, body |-> body]

\* An exception neither except clause of the route catches: Flask answers
\* with its own 500 page, which is not a JSON object of the gateway.
Unhandled(e) ==
    [route |-> "translate", status |-> 500, body |-> [unhandled |-> e.type]]

\* translate, lines 105-110: the response for what translate_text did.
translate_response(r) ==
    IF ~r.raised THEN jsonify("translate", r.value, 200)
    ELSE IF r.exc.type = "ValueError"
    THEN jsonify("translate", [error |-> str(r.exc)], 400)
    ELSE IF r.exc.type = "RuntimeError"
    THEN jsonify("translate", [error |-> str(r.exc)], 500)
    ELSE Unhandled(r.exc)

\* Mutant: the status is left out of the return, so Flask answers 200.
missing_parameters_no_status ==
    jsonify("translate",
            [error |-> "Missing required parameters: text, source_lang, target_lang"],
            200)

\* translate, lines 94-96: the response to a body that lacks a key.
missing_parameters ==
    jsonify("translate",
            [error |-> "Missing required parameters: text, source_lang, target_lang"],
            400)

\* Mutant: the language names are passed on as the client wrote them.
translate_args_as_sent(data) ==
    [text        |-> data.text,
     source_lang |-> data.source_lang,
     target_lang |-> data.target_lang]

\* translate, lines 100-102: the arguments passed to translate_text.
translate_args(data) ==
    [text        |-> data.text,
     source_lang |-> lower(data.source_lang),
     target_lang |-> lower(data.target_lang)]

\* POST /translate with JSON object body data, up to the Provider call.
translate(data) ==
    /\ pc = "ready"
    /\ request' = data
    /\ outcome' = NoOutcome
    /\ UNCHANGED language_map
    /\ IF ~(\A key \in Required : key \in DOMAIN data)
       THEN /\ response' = missing_parameters
            /\ pc' = "ready"
            /\ frame' = NoFrame
            /\ calls' = <<>>
       ELSE LET text == translate_args(data).text
                source_lang == translate_args(data).source_lang
                target_lang == translate_args(data).target_lang
                r == translate_text_lookup(language_map, source_lang, target_lang)
            IN  IF r.raised
                THEN /\ response' = translate_response(r)
                     /\ pc' = "ready"
                     /\ frame' = NoFrame
                     /\ calls' = <<>>
                ELSE /\ response' = NoResponse
                     /\ pc' = "calling"
                     /\ frame' = [text |-> text, source_lang |-> source_lang,
                                  target_lang |-> target_lang]
                     /\ calls' = <<client_translate_text(text, r.value.source_code,
                                                         r.value.target_code)>>

\* Mutant: the display name is read with dict.pop, which removes the source
\* language from the registry after a success.
translate_finish_pop(out) ==
    /\ pc = "calling"
    /\ outcome' = out
    /\ response' = translate_response(
           translate_text_result(language_map, frame.text, frame.source_lang,
                                 frame.target_lang, out))
    /\ pc' = "ready"
    /\ language_map' =
           IF out.kind = "returned" /\ out.translations # <<>>
           THEN [k \in DOMAIN language_map \ {frame.source_lang} |-> language_map[k]]
           ELSE language_map
    /\ UNCHANGED <<request, frame, calls>>

\* The Provider call ends with out; the route finishes the request.
translate_finish(out) ==
    /\ pc = "calling"
    /\ outcome' = out
    /\ response' = translate_response(
           translate_text_result(language_map, frame.text, frame.source_lang,
                                 frame.target_lang, out))
    /\ pc' = "ready"
    /\ UNCHANGED <<language_map, request, frame, calls>>

\* Mutant: an answer without translations makes the gateway call again.
ProviderReturns_again_when_empty(ts) ==
    IF ts = <<>> /\ Len(calls) < 2
    THEN /\ pc = "calling"
         /\ calls' = Append(calls, calls[1])
         /\ UNCHANGED <<language_map, pc, request, frame, outcome, response>>
    ELSE translate_finish(ProviderReturned(ts))

\* The Provider returns a response holding the translations ts.
ProviderReturns(ts) == translate_finish(ProviderReturned(ts))

\* Mutant: a failed call is tried once more.
ProviderRaises_retry(e) ==
    IF Len(calls) < 2
    THEN /\ pc = "calling"
         /\ calls' = Append(calls, calls[1])
         /\ outcome' = ProviderRaised(e)
         /\ UNCHANGED <<language_map, pc, request, frame, response>>
    ELSE translate_finish(ProviderRaised(e))

\* The Provider call raises e.
ProviderRaises(e) == translate_finish(ProviderRaised(e))

\* GET /languages
supported_languages ==
    /\ pc = "ready"
    /\ request' = EmptyBody
    /\ outcome' = NoOutcome
    /\ frame' = NoFrame
    /\ calls' = <<>>
    /\ response' = jsonify("languages", get_supported_languages(language_map), 200)
    /\ pc' = "ready"
    /\ UNCHANGED language_map

----------------------------------------------------------------------------
\* The requests clients send and the answers the Provider gives.

klingon == <<"k","l","i","n","g","o","n">>

\* The registry keys as written and in other letter cases, and names that are
\* no key: klingon, a provider code, a key with a trailing blank, the empty name.
LangNames ==
    {english, twi, ga, ewe, Capitalized(english), Capitalized(twi), AllCaps(twi),
     klingon, <<"g","a","a">>, <<"t","w","i"," ">>, <<>>}

Texts == {"hello", ""}

Restrict(f, K) == [k \in K |-> f[k]]

FullBodies == [text : Texts, source_lang : LangNames, target_lang : LangNames]

\* JSON object bodies holding any subset of the three keys.
Bodies == {Restrict(b, K) : b \in FullBodies, K \in SUBSET Required}

TranslatedTexts == {"HELLO", "akwaaba"}

Translations == UNION {[1..n -> TranslatedTexts] : n \in 0..MaxTranslations}

ProviderErrors ==
    {[type |-> "ValueError",         msg |-> "Invalid language names"],
     [type |-> "ValueError",         msg |-> "503 backend unavailable"],
     [type |-> "RuntimeError",       msg |-> "503 backend unavailable"],
     [type |-> "KeyError",           msg |-> "translations"],
     [type |-> "GoogleAPICallError", msg |-> "503 backend unavailable"]}

----------------------------------------------------------------------------
\* Specification: requests handled one after the other, any Provider.

hist == <<served, log, memo>>

EmptyMemo == [c \in {} |-> NoOutcome]

Init ==
    /\ language_map = InitialLanguageMap
    /\ pc = "ready"
    /\ request = EmptyBody
    /\ frame = NoFrame
    /\ calls = <<>>
    /\ outcome = NoOutcome
    /\ response = NoResponse
    /\ served = 0
    /\ log = EmptyBag
    /\ memo = EmptyMemo

PostTranslate == \E data \in Bodies : translate(data) /\ UNCHANGED hist

ProviderReturn == \E ts \in Translations : ProviderReturns(ts) /\ UNCHANGED hist

ProviderRaise == \E e \in ProviderErrors : ProviderRaises(e) /\ UNCHANGED hist

GetLanguages == supported_languages /\ UNCHANGED hist

Next == PostTranslate \/ ProviderReturn \/ ProviderRaise \/ GetLanguages

Spec == Init /\ [][Next]_vars

----------------------------------------------------------------------------
\* History specification: a bounded run of requests against a Provider that
\* answers deterministically (the same call gets the same answer), with every
\* completed POST /translate exchange kept in log.

HistNames == {ga, Capitalized(ga), twi, klingon}

HistBodies ==
    {Restrict(b, K) : b \in [text : {"hello"}, source_lang : HistNames,
                             target_lang : HistNames],
                      K \in {Required, {"text", "source_lang"}}}

HistOutcomes ==
    {ProviderReturned(<<>>), ProviderReturned(<<"HELLO">>),
     ProviderRaised(ValueError("Invalid language names"))}

\* The deterministic Provider answers a call it has seen as it did before.
Answers(out) == calls[1] \in DOMAIN memo => memo[calls[1]] = out

Remember(out) ==
    IF calls[1] \in DOMAIN memo THEN memo ELSE memo @@ (calls[1] :> out)

Logged ==
    log' = IF response'.route = "translate"
           THEN log (+) SetToBag({[data |-> request', calls |-> calls',
                                   response |-> response']})
           ELSE log

HistPostTranslate ==
    /\ served < MaxRequests
    /\ \E data \in HistBodies : translate(data)
    /\ served' = served + 1
    /\ Logged
    /\ UNCHANGED memo

HistProviderReturn ==
    \E out \in {o \in HistOutcomes : o.kind = "returned"} :
        /\ pc = "calling"
        /\ Answers(out)
        /\ ProviderReturns(out.translations)
        /\ memo' = Remember(out)
        /\ Logged
        /\ UNCHANGED served

HistProviderRaise ==
    \E out \in {o \in HistOutcomes : o.kind = "raised"} :
        /\ pc = "calling"
        /\ Answers(out)
        /\ ProviderRaises(out.exc)
        /\ memo' = Remember(out)
        /\ Logged
        /\ UNCHANGED served

HistGetLanguages ==
    /\ served < MaxRequests
    /\ supported_languages
    /\ served' = served + 1
    /\ UNCHANGED <<log, memo>>

HistNext ==
    HistPostTranslate \/ HistProviderReturn \/ HistProviderRaise \/ HistGetLanguages

HistSpec == Init /\ [][HistNext]_vars

----------------------------------------------------------------------------
\* The properties, stated against the table of the specification.

RegistryKeys == {english, twi, ga, ewe}

ProviderCode(k) ==
    CASE k = english -> "en-GB" [] k = twi -> "ak" [] k = ga -> "gaa" [] k = ewe -> "ee"

DisplayName(k) ==
    CASE k = english -> "English" [] k = twi -> "Twi (Akan)"
      [] k = ga -> "Ga" [] k = ewe -> "Ewe"

HasAll(data) == {"text", "source_lang", "target_lang"} \subseteq DOMAIN data

Resolves(data) ==
    /\ HasAll(data)
    /\ lower(data.source_lang) \in RegistryKeys
    /\ lower(data.target_lang) \in RegistryKeys

\* The response to the POST /translate request in `request` has been produced.
Responded == pc = "ready" /\ response.route = "translate"

MissingBody == [error |-> "Missing required parameters: text, source_lang, target_lang"]

InvalidBody == [error |-> "Invalid language names"]

ErrorPrefix == "Translation error: "

StartsWith(t, prefix) ==
    Len(t) >= Len(prefix) /\ SubSeq(t, 1, Len(prefix)) = prefix

ResultFields == {"original_text", "translated_text", "source_language",
                 "target_language"}

\* C1: a POST /translate whose body lacks one of text, source_lang,
\* target_lang is answered 400 with the missing-parameters message, whatever
\* the values of the keys that are present.
C1_MissingParameters ==
    (Responded /\ ~HasAll(request)) =>
        /\ response.status = 400
        /\ response.body = MissingBody

\* C1 witness: a body without text whose source language is no registry key.
C1_Witness ==
    /\ Responded
    /\ DOMAIN request = {"source_lang", "target_lang"}
    /\ lower(request.source_lang) \notin RegistryKeys
    /\ response.status = 400

C3_ProviderFailure ==
    (Responded /\ outcome.kind = "raised") =>
        /\ Resolves(request)
        /\ response.status = 500
        /\ response.body = [error |-> ErrorPrefix \o str(outcome.exc)]

\* C3 witness: the Provider raised a ValueError carrying the gateway's own
\* invalid-language message.
C3_Witness ==
    /\ Responded
    /\ outcome.kind = "raised"
    /\ outcome.exc = [type |-> "ValueError", msg |-> "Invalid language names"]
    /\ response.status = 500

\* C4: when both keys resolve and the Provider returns a translation, the
\* response is 200 with the request text, the Provider's first translated
\* text and the two display names, and the Provider was called with the two
\* provider codes and the raw text.
C4_Success ==
    (Responded /\ outcome.kind = "returned" /\ outcome.translations # <<>>) =>
        /\ Resolves(request)
        /\ response.status = 200
        /\ response.body =
             [original_text   |-> request.text,
              translated_text |-> Head(outcome.translations),
              source_language |-> DisplayName(lower(request.source_lang)),
              target_language |-> DisplayName(lower(request.target_lang))]
        /\ Len(calls) = 1
        /\ calls[1].contents = <<request.text>>
        /\ calls[1].source_language_code = ProviderCode(lower(request.source_lang))
        /\ calls[1].target_language_code = ProviderCode(lower(request.target_lang))

\* C4 witness: a success between two different languages where the Provider
\* returned two translations that differ.
C4_Witness ==
    /\ Responded
    /\ response.status = 200
    /\ lower(request.source_lang) = english
    /\ lower(request.target_lang) = twi
    /\ Len(outcome.translations) = 2
    /\ outcome.translations[1] # outcome.translations[2]

\* The request with its two language names lower-cased.
LowerCased(data) ==
    [data EXCEPT !.source_lang = lower(@), !.target_lang = lower(@)]

Exchanges == BagToSet(log)

\* C5: language matching is case-insensitive: the response and the Provider
\* call are those of the request with both names lower-cased, and every case
\* variant of a registry key resolves.
C5_CaseInsensitive ==
    /\ \A a \in Exchanges : \A b \in Exchanges :
         (HasAll(a.data) /\ b.data = LowerCased(a.data)) =>
             (a.response = b.response /\ a.calls = b.calls)
    /\ \A a \in Exchanges :
         Resolves(a.data) => (Len(a.calls) = 1 /\ a.response.body # InvalidBody)

\* C5 witness: a request written with a capital and its lower-cased form have
\* both been answered, successfully.
C5_Witness ==
    \E a \in Exchanges : \E b \in Exchanges :
        /\ HasAll(a.data)
        /\ a.data # b.data
        /\ b.data = LowerCased(a.data)
        /\ a.response.status = 200

\* C6 as stated: every POST /translate makes exactly one Provider call
\* between its arrival and its response.
C6_ExactlyOneCallPerRequest == Responded => Len(calls) = 1

\* C6 as amended: a request whose three keys are present and whose two
\* language keys resolve makes exactly one Provider call; a request rejected
\* with 400 makes none.
C6_OneCallWhenResolved ==
    Responded =>
        /\ Resolves(request) => Len(calls) = 1
        /\ ~Resolves(request) => (Len(calls) = 0 /\ response.status = 400)

\* C6 witness: a request answered after one call whose answer held no translation.
C6_Witness ==
    /\ Responded
    /\ Resolves(request)
    /\ Len(calls) = 1
    /\ outcome = ProviderReturned(<<>>)

\* C7: no retries: the Provider is called at most once per request, and once
\* a call has failed the 500 response follows without another call.
C7_NoRetry ==
    /\ Len(calls) <= 1
    /\ outcome.kind = "raised" =>
          (pc = "ready" /\ Len(calls) = 1 /\ response.status = 500)

\* C7 witness: a request whose Provider call failed has been answered.
C7_Witness ==
    /\ Responded
    /\ outcome.kind = "raised"
    /\ Len(calls) = 1

\* C8: after any requests, GET /languages answers 200 with exactly the four
\* entries of the table, and the registry is the table it was built as.
C8_RegistryFixed ==
    /\ DOMAIN language_map = RegistryKeys
    /\ \A k \in RegistryKeys :
         language_map[k] = [code |-> ProviderCode(k), full_name |-> DisplayName(k)]
    /\ response.route = "languages" =>
          /\ response.status = 200
          /\ DOMAIN response.body = RegistryKeys
          /\ \A k \in RegistryKeys : response.body[k] = DisplayName(k)

\* C8 witness: GET /languages answered after a request failed with 500 and
\* another was rejected with 400.
C8_Witness ==
    /\ response.route = "languages"
    /\ \E a \in Exchanges : a.response.status = 500
    /\ \E a \in Exchanges : a.response.status = 400

\* C9: with a deterministic Provider the response depends on the request
\* body alone: a request that was answered 200 gets the same response every
\* time it is sent, whatever was handled before or in between.
C9_NoLeak ==
    \A a \in Exchanges : \A b \in Exchanges :
        (a.data = b.data /\ a.response.status = 200) => b.response = a.response

\* C9 witness: a successful request was sent twice, with a failing request
\* handled as well.
C9_Witness ==
    \E a \in Exchanges :
        /\ a.response.status = 200
        /\ CopiesIn(a, log) >= 2
        /\ \E b \in Exchanges : b.response.status # 200

====
